---- MODULE Spec2Model ----
(***************************************************************************)
(* A model of the Iridium assembler pipeline:                              *)
(*   process_file_into_tokens (line reader, validator, token builder)      *)
(*   -> substitute_pseudo_instrs -> generate_label_table                   *)
(*   -> substitute_labels -> generate_binary.                              *)
(* Source lines are strings; the parsing operators below follow the Rust   *)
(* string functions the source calls (find, split, trim, parse, ...) on    *)
(* the ASCII subset.  Option<T> is a sequence of length 0 (None) or 1      *)
(* (Some).  A Vec<u16> of bytes is kept as its explicit leading words and  *)
(* the number of zero words that follow them.                              *)
(***************************************************************************)
EXTENDS Integers, Sequences, FiniteSets, TLC

VARIABLES pc, source, mode, next_label, built, expanded, label_table, subbed, out, err

vars == <<pc, source, mode, next_label, built, expanded, label_table, subbed, out, err>>

-----------------------------------------------------------------------------
(* Option<T> *)

None == <<>>

Some(x) == <<x>>

IsSome(o) == o # <<>>

Unwrap(o) == o[1]

UnwrapOr(o, d) == IF o = <<>> THEN d ELSE o[1]

-----------------------------------------------------------------------------
(* Rust string functions, on ASCII strings.  Indices returned by Find are  *)
(* 0-based as in Rust; -1 stands for None.                                 *)

Min(S) == CHOOSE x \in S : \A y \in S : x <= y

Max(S) == CHOOSE x \in S : \A y \in S : x >= y

CharAt(s, i) == SubSeq(s, i, i)

StartsWith(s, p) == Len(s) >= Len(p) /\ SubSeq(s, 1, Len(p)) = p

EndsWith(s, p) == Len(s) >= Len(p) /\ SubSeq(s, Len(s) - Len(p) + 1, Len(s)) = p

Find(s, p) ==
    LET hits == {i \in 0..(Len(s) - Len(p)) : SubSeq(s, i + 1, i + Len(p)) = p}
    IN  IF hits = {} THEN -1 ELSE Min(hits)

\* &s[i..] with a 0-based byte index
From(s, i) == SubSeq(s, i + 1, Len(s))

\* &s[..i] with a 0-based byte index
Upto(s, i) == SubSeq(s, 1, i)

WhiteSpace == {" ", "\t"}

TrimStart(s) ==
    LET keep == {i \in 1..Len(s) : CharAt(s, i) \notin WhiteSpace}
    IN  IF keep = {} THEN "" ELSE SubSeq(s, Min(keep), Len(s))

TrimEnd(s) ==
    LET keep == {i \in 1..Len(s) : CharAt(s, i) \notin WhiteSpace}
    IN  IF keep = {} THEN "" ELSE SubSeq(s, 1, Max(keep))

Trim(s) == TrimEnd(TrimStart(s))

\* s.split(sep) for a one-character separator: always at least one piece
RECURSIVE Split(_, _)
Split(s, sep) ==
    LET At(i) == IF i = -1 THEN <<s>> ELSE <<Upto(s, i)>> \o Split(From(s, i + 1), sep)
    IN  At(Find(s, sep))

\* .filter(|item| !item.is_empty())
RECURSIVE FilterNonEmpty(_)
FilterNonEmpty(seq) ==
    IF seq = <<>> THEN <<>>
    ELSE (IF Head(seq) # "" THEN <<Head(seq)>> ELSE <<>>) \o FilterNonEmpty(Tail(seq))

MapTrim(seq) == [i \in 1..Len(seq) |-> Trim(seq[i])]

Digits == {"0", "1", "2", "3", "4", "5", "6", "7", "8", "9"}

Letters ==
    {"a", "b", "c", "d", "e", "f", "g", "h", "i", "j", "k", "l", "m",
     "n", "o", "p", "q", "r", "s", "t", "u", "v", "w", "x", "y", "z",
     "A", "B", "C", "D", "E", "F", "G", "H", "I", "J", "K", "L", "M",
     "N", "O", "P", "Q", "R", "S", "T", "U", "V", "W", "X", "Y", "Z"}

\* char::to_digit(radix): the digit's value, or -1
DigitValue(c, radix) ==
    LET Pick(lo, up) ==
            IF Len(c) = 1 /\ (lo >= 0 \/ up >= 0) /\ lo < radix /\ up < radix
            THEN (IF lo >= up THEN lo ELSE up) ELSE -1
    IN  Pick(Find("0123456789abcdefghijklmnopqrstuvwxyz", c),
             Find("0123456789ABCDEFGHIJKLMNOPQRSTUVWXYZ", c))

RECURSIVE DigitsValue(_, _, _)
DigitsValue(s, radix, acc) ==
    IF s = "" THEN acc
    ELSE DigitsValue(From(s, 1), radix, acc * radix + DigitValue(CharAt(s, 1), radix))

\* i64::from_str_radix(s, radix) and str::parse::<i64>() (radix 10): an
\* optional sign, then one or more digits of the radix.  None on failure.
ParseInt(s, radix) ==
    LET Digs(neg, body) ==
            IF body = "" \/ \E i \in 1..Len(body) : DigitValue(CharAt(body, i), radix) = -1
            THEN None
            ELSE Some((IF neg THEN -1 ELSE 1) * DigitsValue(body, radix, 0))
    IN  Digs(StartsWith(s, "-"),
             IF StartsWith(s, "-") \/ StartsWith(s, "+") THEN From(s, 1) ELSE s)

-----------------------------------------------------------------------------
(* validation.rs.  A validator's verdict is "ok" (Ok), "err" (Err) or      *)
(* "panic" (an indexing panic inside the validator).                       *)

\* the ? operator: b is evaluated only when a is Ok
Then(a, b) == IF a # "ok" THEN a ELSE b

Ok(v) == [st |-> "ok", v |-> v]

Fail(st) == [st |-> st, v |-> ""]

valid_opcodes ==
    {"ADD", "SUB", "ADDI", "SUBI", "SLL", "SRL", "SRA", "NAND", "OR", "ADDC", "SUBC",
     "LOAD", "STORE", "JUMP", "JAL", "CMP", "BEQ", "BNE", "BLT", "BGT", "NOP", "MOVUI",
     "IN", "OUT", "syscall", "HALT", "MOVLI", "ATOM"}

valid_data_types == {".int", ".long", ".half", ".float", ".section", ".char", ".text"}

valid_registers ==
    {"$zero", "$g0", "$g1", "$g2", "$g3", "$g4", "$g5", "$g6", "$g7", "$g8", "$g9",
     "$ua", "$sp", "$ra", "$fp", "$pc"}

remove_label(line) ==
    LET At(index) == IF index # -1 THEN Trim(From(line, index + 1)) ELSE line
    IN  At(Find(line, ":"))

\* the data type checked against the list alone, whatever the mode
validate_data_type_AnyMode(line, m) ==
    LET Check(data_type) ==
            IF data_type \notin valid_data_types THEN Fail("err") ELSE Ok(data_type)
    IN  Check(Split(remove_label(line), " ")[1])

validate_data_type(line, m) ==
    LET Check(data_type) ==
            IF data_type \notin valid_data_types THEN Fail("err")
            ELSE IF m = "t" /\ data_type # ".text" THEN Fail("err")
            ELSE IF m # "t" /\ data_type = ".text" THEN Fail("err")
            ELSE Ok(data_type)
    IN  Check(Split(remove_label(line), " ")[1])

validate_opcode(line) ==
    LET Check(toks) ==
            IF toks = <<>> THEN Fail("panic")
            ELSE IF toks[1] \notin valid_opcodes THEN Fail("err")
            ELSE Ok(toks[1])
    IN  Check(FilterNonEmpty(Split(remove_label(line), " ")))

get_operands_from_line(line, opcode) ==
    LET Cut(opcode_end_index, semi) ==
            FilterNonEmpty(MapTrim(Split(
                SubSeq(line, opcode_end_index + 1, IF semi = -1 THEN Len(line) ELSE semi), ",")))
    IN  Cut(Find(line, opcode) + Len(opcode), Find(line, ";"))

validate_register(register) == IF register \in valid_registers THEN "ok" ELSE "err"

RECURSIVE Pow2(_)
Pow2(n) == IF n = 0 THEN 1 ELSE 2 * Pow2(n - 1)

\* the value of an immediate in its base: 0b binary, 0x hexadecimal, else decimal
ParseImmediate(operand) ==
    IF StartsWith(operand, "0b") THEN ParseInt(From(operand, 2), 2)
    ELSE IF StartsWith(operand, "0x") THEN ParseInt(From(operand, 2), 16)
    ELSE ParseInt(operand, 10)

\* the signed range applied to every base when signed is set
validate_int_immediate_SignedAnyBase(operand, bits, signed) ==
    LET Check(parsed) ==
            IF parsed = None THEN "err"
            ELSE IF Unwrap(parsed) < 0 /\ ~signed THEN "err"
            ELSE IF bits < 31
                    /\ \/ Unwrap(parsed) > (IF signed THEN (Pow2(bits) \div 2) - 1
                                            ELSE Pow2(bits) - 1)
                       \/ signed /\ Unwrap(parsed) < 0 - (Pow2(bits) \div 2)
            THEN "err"
            ELSE "ok"
    IN  Check(ParseImmediate(operand))

\* (TLC's integers are 32-bit: for bits >= 31 the range bounds lie beyond every
\* value the model can hold, and the range test is then vacuous.)
validate_int_immediate(operand, bits, signed) ==
    LET Check(parsed, decimal) ==
            IF parsed = None THEN "err"
            ELSE IF Unwrap(parsed) < 0 /\ ~(signed /\ decimal) THEN "err"
            ELSE IF bits < 31
                    /\ \/ Unwrap(parsed) > (IF signed /\ decimal THEN (Pow2(bits) \div 2) - 1
                                            ELSE Pow2(bits) - 1)
                       \/ /\ signed
                          /\ Unwrap(parsed) < (IF signed /\ decimal THEN 0 - (Pow2(bits) \div 2)
                                               ELSE 0)
            THEN "err"
            ELSE "ok"
    IN  Check(ParseImmediate(operand), ~StartsWith(operand, "0b") /\ ~StartsWith(operand, "0x"))

is_alphanumeric(c) == c \in Letters \/ c \in Digits

validate_label(line, label) ==
    IF label = "" THEN "panic"
    ELSE IF CharAt(label, 1) \in Digits THEN "err"
    ELSE IF \E i \in 1..Len(label) : ~is_alphanumeric(CharAt(label, i)) /\ CharAt(label, i) # "_"
         THEN "err"
    ELSE "ok"

validate_line_label(line) ==
    LET At(index) == IF index # -1 THEN validate_label(line, Upto(line, index)) ELSE "ok"
    IN  At(Find(line, ":"))

validate_operand_label(line, label) ==
    IF ~StartsWith(label, "@") THEN "err" ELSE validate_label(line, From(label, 1))

validate_label_operand(line, operand) ==
    IF ~StartsWith(operand, "@") THEN "err" ELSE validate_operand_label(line, operand)

\* the match of validate_operands on the operands of the line
CheckOperands(line, opcode, operands) ==
    LET n      == Len(operands)
        Reg(i) == validate_register(operands[i])
    IN  CASE opcode \in {"ADD", "SUB", "NAND", "OR"} ->
               IF n # 3 THEN "err" ELSE Then(Reg(1), Then(Reg(2), Reg(3)))
          [] opcode \in {"LOAD", "STORE"} ->
               IF n # 3 /\ n # 4 THEN "err"
               ELSE Then(Reg(1), Then(Reg(2), Then(Reg(3),
                        IF n = 4 THEN validate_label_operand(line, operands[4]) ELSE "ok")))
          [] opcode \in {"ADDI", "SUBI", "SLL", "SRL", "SRA"} ->
               IF n # 3 THEN "err"
               ELSE Then(Reg(1), Then(Reg(2), validate_int_immediate(operands[3], 4, FALSE)))
          [] opcode \in {"ADDC", "SUBC", "CMP", "IN", "OUT"} ->
               IF n # 2 THEN "err" ELSE Then(Reg(1), Reg(2))
          [] opcode \in {"JUMP", "JAL", "BEQ", "BNE", "BLT", "BGT"} ->
               CASE n = 1 -> Then(Reg(1),
                                  IF operands[1] \notin {"$sp", "$fp", "$ra", "$pc"}
                                  THEN "err" ELSE "ok")
                 [] n = 2 -> Then(Reg(1), Reg(2))
                 [] n = 3 -> Then(Reg(1), Then(Reg(2), validate_label_operand(line, operands[3])))
                 [] OTHER -> "err"
          [] opcode \in {"MOVUI", "MOVLI"} ->
               IF n # 2 THEN "err"
               ELSE Then(Reg(1),
                         IF StartsWith(operands[2], "@")
                         THEN validate_label_operand(line, operands[2])
                         ELSE validate_int_immediate(operands[2], 8, FALSE))
          [] opcode = "syscall" ->
               IF n # 1 THEN "err" ELSE validate_int_immediate(operands[1], 8, FALSE)
          [] opcode \in {"NOP", "ATOM", "HALT"} ->
               IF n = 0 THEN "ok" ELSE "err"
          [] OTHER -> "err"

validate_operands(line, opcode) ==
    CheckOperands(line, opcode, get_operands_from_line(line, opcode))

validate_token_vec(line, vec, req_len) == IF Len(vec) # req_len THEN "err" ELSE "ok"

\* f32 literals of the form [+-]digits[.digits]; the other forms str::parse::<f32>
\* accepts (exponents, inf, nan) are outside the modelled inputs, and so are
\* magnitudes above the range limits (4_293_918_720.0 and f32::MAX).
validate_float_immediate(line, immediate, short) ==
    LET Check(intpart, fracpart) ==
            IF ParseInt(intpart, 10) = None \/ ParseInt(fracpart, 10) = None
               \/ StartsWith(fracpart, "-") \/ StartsWith(fracpart, "+")
            THEN "err"
            ELSE "ok"
        At(dot) == Check(IF dot = -1 THEN immediate ELSE Upto(immediate, dot),
                         IF dot = -1 THEN "0" ELSE From(immediate, dot + 1))
    IN  At(Find(immediate, "."))

validate_char_immediate(line, immediate) ==
    IF ~StartsWith(immediate, "'") \/ ~EndsWith(immediate, "'") THEN "err"
    ELSE IF Len(immediate) < 2 THEN "panic"
    ELSE IF Len(SubSeq(immediate, 2, Len(immediate) - 1)) # 1 THEN "err"
    ELSE "ok"

validate_char_instr(line) ==
    LET Escaped(instr, verdict) ==
            IF verdict = "err"
            THEN (IF SubSeq(instr, 2, Len(instr) - 1) \in {"\t", "\n", "\r"}
                  THEN "ok" ELSE "err")
            ELSE verdict
        Quoted(instr) ==
            IF ~(StartsWith(instr, "'") /\ EndsWith(instr, "'")) THEN "err"
            ELSE Escaped(instr, validate_char_immediate(line, instr))
        Check(instr0) ==
            IF ~StartsWith(instr0, ".char") THEN "err" ELSE Quoted(Trim(From(instr0, 5)))
    IN  Check(Trim(remove_label(line)))

\* ASSUMES LABEL HAS ALREADY BEEN REMOVED: Result<i64, _>
get_valid_array_size(line) ==
    LET Parsed(size) == IF size = None THEN Fail("err") ELSE Ok(Unwrap(size))
        Check(tokens) ==
            IF Len(tokens) < 2 THEN Fail("panic") ELSE Parsed(ParseInt(Trim(tokens[2]), 10))
    IN  Check(Split(line, " "))

\* the length check on the characters between the quotes alone
validate_text_instr_NoTerminator(line) ==
    LET Check(instr, array_size, text_start_index) ==
            IF array_size.st # "ok" THEN array_size.st
            ELSE IF text_start_index = -1 THEN "err"
            ELSE IF ~EndsWith(instr, "\"") THEN "err"
            ELSE IF array_size.v < 0 THEN "panic"
            ELSE IF Len(From(instr, text_start_index)) - 2 > array_size.v THEN "err"
            ELSE "ok"
        On(instr) == Check(instr, get_valid_array_size(instr), Find(instr, "\""))
    IN  On(remove_label(line))

validate_text_instr(line) ==
    LET Check(instr, array_size, text_start_index) ==
            IF array_size.st # "ok" THEN array_size.st
            ELSE IF text_start_index = -1 THEN "err"
            ELSE IF ~EndsWith(instr, "\"") THEN "err"
            ELSE IF array_size.v < 0 THEN "panic"
            ELSE IF Len(From(instr, text_start_index)) - 1 > array_size.v THEN "err"
            ELSE "ok"
        On(instr) == Check(instr, get_valid_array_size(instr), Find(instr, "\""))
    IN  On(remove_label(line))

RECURSIVE AllValid(_, _)
AllValid(items, i) ==
    IF i > Len(items) THEN "ok"
    ELSE Then(validate_int_immediate(items[i], 16, TRUE), AllValid(items, i + 1))

validate_bytes_section_instr(line) ==
    LET Sized(array_size, array_contents, items_ok) ==
            IF items_ok # "ok" THEN items_ok
            ELSE IF array_size.v < 0 THEN "panic"
            ELSE IF Len(array_contents) > array_size.v THEN "err"
            ELSE "ok"
        Contents(array_size, array_contents) ==
            Sized(array_size, array_contents, AllValid(array_contents, 1))
        Check(instr, array_size, array_start_index) ==
            IF array_size.st # "ok" THEN array_size.st
            ELSE IF array_start_index = -1 THEN "err"
            ELSE IF ~EndsWith(instr, "]") THEN "err"
            ELSE Contents(array_size,
                          FilterNonEmpty(MapTrim(Split(
                              SubSeq(instr, array_start_index + 2, Len(instr) - 1), ","))))
        On(instr) == Check(instr, get_valid_array_size(instr), Find(instr, "["))
    IN  On(remove_label(line))

validate_data_format(line, data_type) ==
    LET Check(tokens) ==
            CASE data_type = ".int" ->
                   Then(validate_token_vec(line, tokens, 2),
                        validate_int_immediate(tokens[2], 16, TRUE))
              [] data_type = ".long" ->
                   Then(validate_token_vec(line, tokens, 2),
                        validate_int_immediate(tokens[2], 32, TRUE))
              [] data_type = ".half" ->
                   Then(validate_token_vec(line, tokens, 2),
                        validate_float_immediate(line, tokens[2], TRUE))
              [] data_type = ".float" ->
                   Then(validate_token_vec(line, tokens, 2),
                        validate_float_immediate(line, tokens[2], FALSE))
              [] data_type = ".section" -> validate_bytes_section_instr(line)
              [] data_type = ".char" -> validate_char_instr(line)
              [] data_type = ".text" -> validate_text_instr(line)
              [] OTHER -> "err"
    IN  Check(Split(remove_label(line), " "))

validate_asm_line(line, m) ==
    LET Code(opcode) ==
            IF opcode.st = "ok" THEN validate_operands(line, opcode.v) ELSE opcode.st
        Data(data_type) ==
            IF data_type.st = "ok" THEN validate_data_format(line, data_type.v)
            ELSE IF validate_opcode(line).st = "panic" THEN "panic"
            ELSE "err"
        Body(label_ok) ==
            IF label_ok # "ok" THEN label_ok
            ELSE IF EndsWith(line, ":") THEN "ok"
            ELSE IF m = "c" THEN Code(validate_opcode(line))
            ELSE Data(validate_data_type(line, m))
    IN  Body(validate_line_label(line))

-----------------------------------------------------------------------------
(* token_types.rs: the three record variants of FileTokens.                *)

InstrTokens(label, opcode, operand_a, operand_b, operand_c, immediate, op_label) ==
    [kind |-> "instr", label |-> label, opcode |-> opcode, operand_a |-> operand_a,
     operand_b |-> operand_b, operand_c |-> operand_c, immediate |-> immediate,
     op_label |-> op_label]

DataTokens(label, category, bytes) ==
    [kind |-> "data", label |-> label, category |-> category, bytes |-> bytes]

TextTokens(label, bytes) == [kind |-> "text", label |-> label, bytes |-> bytes]

\* Vec<u16>: the leading words, then `pad` zero words
Bytes(words, pad) == [words |-> words, pad |-> pad]

\* bytes.len()
BytesLen(b) == Len(b.words) + b.pad

\* bytes[i], 1-based
BytesAt(b, i) == IF i <= Len(b.words) THEN b.words[i] ELSE 0

-----------------------------------------------------------------------------
(* token_generator.rs.  A builder's result is st = "ok" with the value, or *)
(* st = "panic" (an unwrap or index that fails).                           *)

\* the ASCII characters 32..95 and 97..126, in code order
AsciiLow == " !\"#$%&'()*+,-./0123456789:;<=>?@ABCDEFGHIJKLMNOPQRSTUVWXYZ[\\]^_"

AsciiHigh == "abcdefghijklmnopqrstuvwxyz{|}~"

\* the UTF-16 code unit of an ASCII character
CodeUnit(c) ==
    LET At(i) == IF i # -1 THEN 32 + i ELSE 97 + Find(AsciiHigh, c)
    IN  At(Find(AsciiLow, c))

\* one word per index below vec_size: the character there, or '\0'
convert_string_to_bytes(string, vec_size) ==
    LET n == IF Len(string) < vec_size THEN Len(string) ELSE vec_size
    IN  Bytes([i \in 1..n |-> CodeUnit(CharAt(string, i))], vec_size - n)

\* Option<i64>: None where the source's unwrap panics
get_int_immediate_from_string(immediate) ==
    IF StartsWith(immediate, "0x") THEN ParseInt(From(immediate, 2), 16)
    ELSE IF StartsWith(immediate, "0b") THEN ParseInt(From(immediate, 2), 2)
    ELSE ParseInt(immediate, 10)

\* i64 -> unsigned of `bits` bits by try_into().unwrap(): None where it panics
TryIntoUnsigned(o, bits) ==
    IF o = None THEN None
    ELSE IF Unwrap(o) < 0 \/ (bits < 31 /\ Unwrap(o) >= Pow2(bits)) THEN None
    ELSE o

\* str::parse::<usize>(): no minus sign is accepted
ParseUsize(s) == IF StartsWith(s, "-") THEN None ELSE ParseInt(s, 10)

\* the items of a .section, as the builder splits them (filtered, then trimmed)
RECURSIVE SectionItems(_)
SectionItems(pieces) ==
    IF pieces = <<>> THEN <<>>
    ELSE (IF Head(pieces) # "" /\ Head(pieces) # " "
          THEN <<TryIntoUnsigned(get_int_immediate_from_string(Trim(Head(pieces))), 16)>>
          ELSE <<>>) \o SectionItems(Tail(pieces))

\* (.half and .float are lowered through IEEE 754 conversions and are not
\* among the modelled input lines.)
get_bytes_array_from_line(category, line) ==
    LET IntWord(num) ==
            IF TryIntoUnsigned(num, 16) = None THEN Fail("panic")
            ELSE Ok(Bytes(<<Unwrap(num)>>, 0))
        LongWords(num) ==
            IF TryIntoUnsigned(num, 32) = None THEN Fail("panic")
            ELSE Ok(Bytes(<<Unwrap(num) \div 65536, Unwrap(num) % 65536>>, 0))
        TextWords(text, size) ==
            IF size = None \/ Len(text) < 2 THEN Fail("panic")
            ELSE Ok(convert_string_to_bytes(SubSeq(text, 2, Len(text) - 1), Unwrap(size)))
        SectionWords(items, size) ==
            IF size = None \/ \E i \in 1..Len(items) : items[i] = None THEN Fail("panic")
            ELSE Ok(Bytes([i \in 1..Len(items) |-> Unwrap(items[i])],
                          IF Len(items) < Unwrap(size) THEN Unwrap(size) - Len(items) ELSE 0))
        Lower(data, toks, quote, brack) ==
            IF Len(toks) < 2 THEN Fail("panic")
            ELSE CASE category = "int"  -> IntWord(get_int_immediate_from_string(toks[2]))
                   [] category = "long" -> LongWords(get_int_immediate_from_string(toks[2]))
                   [] category = "char" ->
                        IF Len(toks[2]) < 2 THEN Fail("panic")
                        ELSE Ok(convert_string_to_bytes(CharAt(toks[2], 2), 1))
                   [] category = "text" ->
                        IF quote = -1 THEN Fail("panic")
                        ELSE TextWords(From(data, quote), ParseUsize(toks[2]))
                   [] category = "section" ->
                        IF brack = -1 THEN Fail("panic")
                        ELSE SectionWords(SectionItems(Split(SubSeq(data, brack + 2, Len(data) - 1), ",")),
                                     ParseUsize(toks[2]))
                   [] OTHER -> Fail("panic")
        On(data) == Lower(data, FilterNonEmpty(Split(data, " ")), Find(data, "\""), Find(data, "["))
    IN  On(remove_label(line))

\* the label of a record: the same-line prefix, else the pending label
LineLabel(line, prev_label) ==
    LET At(index) == IF index # -1 THEN Some(Upto(line, index)) ELSE prev_label
    IN  At(Find(line, ":"))

generate_data_tokens(line, prev_label, m) ==
    LET Build(category, bytes) ==
            IF bytes.st # "ok" THEN Fail("panic")
            ELSE Ok(DataTokens(LineLabel(line, prev_label), category, bytes.v))
        Lower(category) == Build(category, get_bytes_array_from_line(category, line))
        Typed(data_type) ==
            IF data_type.st # "ok" THEN Fail("panic") ELSE Lower(From(data_type.v, 1))
    IN  Typed(validate_data_type(line, m))

generate_text_tokens(line, prev_label, m) ==
    LET Build(bytes) ==
            IF bytes.st # "ok" THEN Fail("panic")
            ELSE Ok(TextTokens(LineLabel(line, prev_label), bytes.v))
        Typed(data_type) ==
            IF data_type.st # "ok" THEN Fail("panic")
            ELSE Build(get_bytes_array_from_line(From(data_type.v, 1), line))
    IN  Typed(validate_data_type(line, m))

\* the match of generate_instr_tokens on the number of operands
BuildInstr(label, opcode, operands) ==
    LET n == Len(operands)
        Build(a, b, c, imm, opl) == Ok(InstrTokens(label, opcode, a, b, c, imm, opl))
        WithImm(a, b, imm) ==
            IF imm = None THEN Fail("panic") ELSE Build(a, b, None, imm, None)
        Imm(i) == TryIntoUnsigned(get_int_immediate_from_string(operands[i]), 64)
    IN  CASE n = 0 -> Build(None, None, None, None, None)
          [] n = 1 ->
               IF opcode = "syscall" THEN WithImm(None, None, Imm(1))
               ELSE Build(Some(operands[1]), None, None, None, None)
          [] n = 2 ->
               IF StartsWith(operands[2], "$")
               THEN Build(Some(operands[1]), Some(operands[2]), None, None, None)
               ELSE IF StartsWith(operands[2], "@")
               THEN Build(Some(operands[1]), None, None, None, Some(operands[2]))
               ELSE WithImm(Some(operands[1]), None, Imm(2))
          [] n = 4 ->
               Build(Some(operands[1]), Some(operands[2]), Some(operands[3]), None,
                     Some(operands[4]))
          [] n = 3 ->
               IF StartsWith(operands[3], "@")
               THEN Build(Some(operands[1]), Some(operands[2]), None, None, Some(operands[3]))
               ELSE IF ~StartsWith(operands[3], "$")
               THEN WithImm(Some(operands[1]), Some(operands[2]), Imm(3))
               ELSE Build(Some(operands[1]), Some(operands[2]), Some(operands[3]), None, None)
          [] OTHER -> Fail("panic")

generate_instr_tokens(line, prev_label) ==
    LET Coded(opcode) ==
            IF opcode.st # "ok" THEN Fail("panic")
            ELSE BuildInstr(LineLabel(line, prev_label), opcode.v,
                            get_operands_from_line(line, opcode.v))
    IN  Coded(validate_opcode(line))

-----------------------------------------------------------------------------
(* pseudo_substitution.rs *)

BranchOpcodes == {"JUMP", "BEQ", "BNE", "BLT", "BGT", "JAL"}

\* a LOAD/STORE expansion that loads the address into operand_a
ExpandLoadStore_ViaOperandA(t) ==
    << InstrTokens(None, "MOVLI", t.operand_a, None, None, None, Some("l" \o Unwrap(t.op_label))),
       InstrTokens(None, "MOVUI", t.operand_a, None, None, None, Some("l" \o Unwrap(t.op_label))),
       InstrTokens(None, t.opcode, t.operand_a, t.operand_b, t.operand_c, None, None) >>

\* the records pushed for a LOAD or STORE with an operand label
ExpandLoadStore(t) ==
    << InstrTokens(None, "MOVLI", t.operand_b, None, None, None, Some("l" \o Unwrap(t.op_label))),
       InstrTokens(None, "MOVUI", t.operand_b, None, None, None, Some("l" \o Unwrap(t.op_label))),
       InstrTokens(None, t.opcode, t.operand_a, t.operand_b, t.operand_c, None, None) >>

\* a branch expansion of three records: one MOVLI/MOVUI pair, then the branch
ExpandBranch_ThreeRecords(t) ==
    << InstrTokens(t.label, "MOVLI", t.operand_a, None, None, None, Some("u" \o Unwrap(t.op_label))),
       InstrTokens(None, "MOVUI", t.operand_a, None, None, None, Some("u" \o Unwrap(t.op_label))),
       InstrTokens(None, t.opcode, t.operand_a, t.operand_b, t.operand_c, None, None) >>

\* a branch expansion with the halves of the address exchanged
ExpandBranch_SwappedTags(t) ==
    << InstrTokens(t.label, "MOVLI", t.operand_a, None, None, None, Some("l" \o Unwrap(t.op_label))),
       InstrTokens(None, "MOVUI", t.operand_a, None, None, None, Some("l" \o Unwrap(t.op_label))),
       InstrTokens(None, "MOVLI", t.operand_b, None, None, None, Some("u" \o Unwrap(t.op_label))),
       InstrTokens(None, "MOVUI", t.operand_b, None, None, None, Some("u" \o Unwrap(t.op_label))),
       InstrTokens(None, t.opcode, t.operand_a, t.operand_b, t.operand_c, None, None) >>

\* a branch expansion whose last record keeps the operand label
ExpandBranch_KeepsLabel(t) ==
    << InstrTokens(t.label, "MOVLI", t.operand_a, None, None, None, Some("u" \o Unwrap(t.op_label))),
       InstrTokens(None, "MOVUI", t.operand_a, None, None, None, Some("u" \o Unwrap(t.op_label))),
       InstrTokens(None, "MOVLI", t.operand_b, None, None, None, Some("l" \o Unwrap(t.op_label))),
       InstrTokens(None, "MOVUI", t.operand_b, None, None, None, Some("l" \o Unwrap(t.op_label))),
       InstrTokens(None, t.opcode, t.operand_a, t.operand_b, t.operand_c, None, t.op_label) >>

\* the records pushed for any other opcode with an operand label, MOVLI and
\* MOVUI apart: the branches
ExpandBranch(t) ==
    << InstrTokens(t.label, "MOVLI", t.operand_a, None, None, None, Some("u" \o Unwrap(t.op_label))),
       InstrTokens(None, "MOVUI", t.operand_a, None, None, None, Some("u" \o Unwrap(t.op_label))),
       InstrTokens(None, "MOVLI", t.operand_b, None, None, None, Some("l" \o Unwrap(t.op_label))),
       InstrTokens(None, "MOVUI", t.operand_b, None, None, None, Some("l" \o Unwrap(t.op_label))),
       InstrTokens(None, t.opcode, t.operand_a, t.operand_b, t.operand_c, None, None) >>

\* an expander that pushes a branch without operand label as it is, also when
\* it has a single register
ExpandToken_KeepsSingleRegister(t) ==
    IF t.kind = "instr" /\ IsSome(t.op_label)
    THEN IF t.opcode = "LOAD" \/ t.opcode = "STORE" THEN ExpandLoadStore(t)
         ELSE IF t.opcode # "MOVLI" /\ t.opcode # "MOVUI" THEN ExpandBranch(t)
         ELSE <<t>>
    ELSE <<t>>

\* an expander that pushes a Data or Text record without its label
ExpandToken_DropsDataLabel(t) ==
    IF t.kind = "instr"
    THEN IF IsSome(t.op_label)
         THEN IF t.opcode = "LOAD" \/ t.opcode = "STORE" THEN ExpandLoadStore(t)
              ELSE IF t.opcode # "MOVLI" /\ t.opcode # "MOVUI" THEN ExpandBranch(t)
              ELSE <<t>>
         ELSE IF t.opcode \in BranchOpcodes
              THEN (IF IsSome(t.operand_b) THEN <<t>>
                    ELSE << InstrTokens(t.label, t.opcode, None, t.operand_a, None, None, None) >>)
              ELSE <<t>>
    ELSE <<[t EXCEPT !.label = None]>>

\* what substitute_pseudo_instrs pushes for one record of the stream
ExpandToken(t) ==
    IF t.kind = "instr"
    THEN IF IsSome(t.op_label)
         THEN IF t.opcode = "LOAD" \/ t.opcode = "STORE" THEN ExpandLoadStore(t)
              ELSE IF t.opcode # "MOVLI" /\ t.opcode # "MOVUI" THEN ExpandBranch(t)
              ELSE <<t>>
         ELSE IF t.opcode \in BranchOpcodes
              THEN (IF IsSome(t.operand_b) THEN <<t>>
                    ELSE << InstrTokens(t.label, t.opcode, None, t.operand_a, None, None, None) >>)
              ELSE <<t>>
    ELSE <<t>>  \* DataTokens arm; the match names no TextTokens arm, a Text
                \* record is taken through it like a Data record

RECURSIVE substitute_pseudo_instrs(_)
substitute_pseudo_instrs(tokens) ==
    IF tokens = <<>> THEN <<>>
    ELSE ExpandToken(Head(tokens)) \o substitute_pseudo_instrs(Tail(tokens))

-----------------------------------------------------------------------------
(* label_table.rs.  The label table is a function from label to address.   *)

page_size == 4096

EmptyTable == [l \in {} |-> 0]

Insert(table, label, addr) ==
    [l \in DOMAIN table \cup {label} |-> IF l = label THEN addr ELSE table[l]]

\* the locals seeded at fixed bases: code at 0x2400, data one page below 0x8800
ResolverInit_FixedBase ==
    [instr_addr |-> 9216, data_addr |-> 30720, text_addr |-> 30720, mode |-> "c",
     label_table |-> EmptyTable, dup |-> None]

\* the locals of generate_label_table before the loop
ResolverInit ==
    [instr_addr |-> 0, data_addr |-> 0, text_addr |-> 0, mode |-> "c",
     label_table |-> EmptyTable, dup |-> None]

\* `if x % page_size == 0 && x != 0`
AtPageEnd(x) == x % page_size = 0 /\ x # 0

\* a DataTokens arm that binds a label again without the duplicate test
ResolveData_NoDupCheck(r, t) ==
    LET r1 == IF r.mode = "c"
              THEN [r EXCEPT !.data_addr = @ + page_size, !.text_addr = @ + page_size,
                             !.mode = "d"]
              ELSE r
        step == IF IsSome(t.label) THEN BytesLen(t.bytes) ELSE 1
    IN  [r1 EXCEPT !.label_table = IF IsSome(t.label)
                                    THEN Insert(@, Unwrap(t.label), r1.data_addr) ELSE @,
                   !.data_addr = @ + step,
                   !.text_addr = IF AtPageEnd(r1.data_addr + step) THEN @ + page_size ELSE @]

\* the DataTokens arm of the loop body
ResolveData(r, t) ==
    LET r1 == IF r.mode = "c"
              THEN [r EXCEPT !.data_addr = @ + page_size, !.text_addr = @ + page_size,
                             !.mode = "d"]
              ELSE r
        step == IF IsSome(t.label) THEN BytesLen(t.bytes) ELSE 1
        data_addr == r1.data_addr + step
    IN  IF IsSome(t.label) /\ Unwrap(t.label) \in DOMAIN r1.label_table
        THEN [r1 EXCEPT !.dup = t.label]
        ELSE [r1 EXCEPT !.label_table = IF IsSome(t.label)
                                         THEN Insert(@, Unwrap(t.label), r1.data_addr) ELSE @,
                        !.data_addr = data_addr,
                        !.text_addr = IF AtPageEnd(data_addr) THEN @ + page_size ELSE @]

\* the TextTokens arm of the loop body
ResolveText(r, t) ==
    LET r1 == IF r.mode # "t"
              THEN [r EXCEPT !.text_addr = @ + page_size, !.mode = "t"]
              ELSE r
    IN  IF IsSome(t.label) /\ Unwrap(t.label) \in DOMAIN r1.label_table
        THEN [r1 EXCEPT !.dup = t.label]
        ELSE [r1 EXCEPT !.label_table = IF IsSome(t.label)
                                         THEN Insert(@, Unwrap(t.label), r1.text_addr) ELSE @,
                        !.text_addr = IF IsSome(t.label) THEN @ + BytesLen(t.bytes) ELSE @ + 1]

\* the InstrTokens arm of the loop body
ResolveInstr(r, t) ==
    IF IsSome(t.label) /\ Unwrap(t.label) \in DOMAIN r.label_table
    THEN [r EXCEPT !.dup = t.label]
    ELSE [r EXCEPT !.label_table = IF IsSome(t.label)
                                    THEN Insert(@, Unwrap(t.label), r.instr_addr) ELSE @,
                   !.instr_addr = @ + 1,
                   !.data_addr = IF AtPageEnd(r.instr_addr + 1) THEN @ + page_size ELSE @,
                   !.text_addr = IF AtPageEnd(r.instr_addr + 1) THEN @ + page_size ELSE @]

\* one iteration of the loop; nothing runs after `return Err(..)`
ResolveStep(r, t) ==
    IF IsSome(r.dup) THEN r
    ELSE CASE t.kind = "data"  -> ResolveData(r, t)
           [] t.kind = "text"  -> ResolveText(r, t)
           [] t.kind = "instr" -> ResolveInstr(r, t)

\* the locals of generate_label_table after the first k records
RECURSIVE ResolvePrefix(_, _)
ResolvePrefix(tokens_stream, k) ==
    IF k = 0 THEN ResolverInit
    ELSE ResolveStep(ResolvePrefix(tokens_stream, k - 1), tokens_stream[k])

\* Result<HashMap<String, i64>, AsmValidationError>
generate_label_table(tokens_stream) ==
    LET Finish(r) == IF IsSome(r.dup) THEN Fail("err") ELSE Ok(r.label_table)
    IN  Finish(ResolvePrefix(tokens_stream, Len(tokens_stream)))

-----------------------------------------------------------------------------
(* pseudo_substitution.rs: substitute_labels *)

\* label.replace("@", "")
RECURSIVE RemoveAt(_)
RemoveAt(s) ==
    IF s = "" THEN ""
    ELSE (IF CharAt(s, 1) = "@" THEN "" ELSE CharAt(s, 1)) \o RemoveAt(From(s, 1))

\* the prefix tag of an operand label: 'u', 'l' or ' '
LabelPrefix(label) == IF CharAt(label, 1) \in {"u", "l"} THEN CharAt(label, 1) ELSE " "

\* the name looked up in the table
LabelName(label) ==
    LET Strip(name) == IF LabelPrefix(label) # " " THEN From(name, 1) ELSE name
    IN  Strip(RemoveAt(label))

\* a byte selection that ignores the prefix tag
SelectByte_NoTag(opcode, prefix, addr) ==
    IF opcode = "MOVLI" THEN addr % 256 ELSE (addr \div 256) % 256

\* the byte of the address that an opcode with a prefix tag selects
SelectByte(opcode, prefix, addr) ==
    IF opcode = "MOVLI"
    THEN (IF prefix = "u" THEN (addr \div 65536) % 256 ELSE addr % 256)
    ELSE (IF prefix = "u" THEN (addr \div 16777216) % 256 ELSE (addr \div 256) % 256)

\* a loop body that takes a label missing from the table as address 0
SubstituteToken_MissingIsZero(t, table) ==
    IF t.kind # "instr" \/ t.op_label = None THEN Ok(t)
    ELSE IF t.opcode \notin {"MOVLI", "MOVUI"} THEN Fail("err")
    ELSE Ok([t EXCEPT !.immediate =
                          Some(IF LabelName(Unwrap(t.op_label)) \in DOMAIN table
                               THEN SelectByte(t.opcode, LabelPrefix(Unwrap(t.op_label)),
                                               table[LabelName(Unwrap(t.op_label))])
                               ELSE 0),
                      !.op_label = None])

\* the loop body of substitute_labels for one record
SubstituteToken(t, table) ==
    LET Lookup(name) ==
            IF name \notin DOMAIN table THEN Fail("err")
            ELSE Ok([t EXCEPT !.immediate = Some(SelectByte(t.opcode,
                                                            LabelPrefix(Unwrap(t.op_label)),
                                                            table[name])),
                              !.op_label = None])
    IN  IF t.kind # "instr" \/ t.op_label = None THEN Ok(t)
        ELSE IF Unwrap(t.op_label) = "" THEN Fail("panic")
        ELSE IF t.opcode \notin {"MOVLI", "MOVUI"} THEN Fail("err")
        ELSE Lookup(LabelName(Unwrap(t.op_label)))

\* the loop of substitute_labels from record i on: the first failing record decides
RECURSIVE SubstituteFrom(_, _, _, _)
SubstituteFrom(tokens, table, i, new_tokens) ==
    LET Push(r) ==
            IF r.st # "ok" THEN Fail(r.st)
            ELSE SubstituteFrom(tokens, table, i + 1, Append(new_tokens, r.v))
    IN  IF i > Len(tokens) THEN Ok(new_tokens)
        ELSE Push(SubstituteToken(tokens[i], table))

\* Result<Vec<FileTokens>, LabelNotFoundError>
substitute_labels(tokens, table) == SubstituteFrom(tokens, table, 1, <<>>)

-----------------------------------------------------------------------------
(* generate_code.rs *)

OPCODE_BINARIES ==
    "NOP" :> 0 @@ "ADD" :> 4096 @@ "SUB" :> 8192 @@ "ADDI" :> 12288 @@ "SUBI" :> 16384 @@
    "SLL" :> 20480 @@ "SRL" :> 24576 @@ "SRA" :> 28672 @@ "NAND" :> 32768 @@ "OR" :> 36864 @@
    "LOAD" :> 40960 @@ "STORE" :> 45056 @@ "MOVUI" :> 49152 @@ "MOVLI" :> 53248 @@
    "ADDC" :> 61440 @@ "SUBC" :> 61696 @@ "JUMP" :> 61952 @@ "JAL" :> 62208 @@
    "CMP" :> 62464 @@ "BEQ" :> 62720 @@ "BNE" :> 62976 @@ "BLT" :> 63232 @@
    "BGT" :> 63488 @@ "IN" :> 63744 @@ "OUT" :> 64000 @@ "syscall" :> 64512 @@
    "HALT" :> 65535

REGISTER_BINARIES ==
    [r \in valid_registers |->
        CASE r = "$zero" -> 0 [] r = "$g0" -> 1 [] r = "$g1" -> 2 [] r = "$g2" -> 3
          [] r = "$g3" -> 4  [] r = "$g4" -> 5  [] r = "$g5" -> 6  [] r = "$g6" -> 7
          [] r = "$g7" -> 8  [] r = "$g8" -> 9  [] r = "$g9" -> 10 [] r = "$ua" -> 11
          [] r = "$sp" -> 12 [] r = "$fp" -> 13 [] r = "$ra" -> 14 [] r = "$pc" -> 15]

\* a | b on unsigned integers
RECURSIVE BitOr(_, _)
BitOr(a, b) ==
    IF a = 0 THEN b
    ELSE IF b = 0 THEN a
    ELSE (IF a % 2 = 1 \/ b % 2 = 1 THEN 1 ELSE 0) + 2 * BitOr(a \div 2, b \div 2)

\* a & b on unsigned integers
RECURSIVE BitAnd(_, _)
BitAnd(a, b) ==
    IF a = 0 \/ b = 0 THEN 0
    ELSE (IF a % 2 = 1 /\ b % 2 = 1 THEN 1 ELSE 0) + 2 * BitAnd(a \div 2, b \div 2)

\* (x << n) as u16
Shl16(x, n) == (x * Pow2(n)) % 65536

\* REGISTER_BINARIES.get(o.unwrap_or("$zero")): None where the unwrap panics
RegisterOf(o) ==
    LET Get(name) ==
            IF name \in DOMAIN REGISTER_BINARIES THEN Some(REGISTER_BINARIES[name]) ELSE None
    IN  Get(UnwrapOr(o, "$zero"))

\* the match of get_binary_from_tokens on the opcode's binary, after the
\* first operand is placed: Ok(<<word>>), or "panic"
EncodeOperands(t, opcode, binary, rb, rc) ==
    CASE opcode \in {0, 65535} -> Ok(<<opcode>>)
      [] opcode \in {4096, 8192, 20480, 24576, 28672, 32768, 36864, 40960, 45056} ->
           IF rb = None \/ rc = None THEN Fail("panic")
           ELSE Ok(<<BitOr(BitOr(binary, Shl16(Unwrap(rb), 4)), Unwrap(rc))>>)
      [] opcode \in {12288, 16384} ->
           IF rb = None \/ t.immediate = None THEN Fail("panic")
           ELSE Ok(<<BitOr(BitOr(binary, Shl16(Unwrap(rb), 4)),
                           BitAnd(Unwrap(t.immediate), 15))>>)
      [] opcode \in {49152, 53248} ->
           IF rb = None \/ t.immediate = None THEN Fail("panic")
           ELSE Ok(<<BitOr(BitOr(binary, Shl16(Unwrap(rb), 4)),
                           BitAnd(Unwrap(t.immediate), 255))>>)
      [] opcode \in {61440, 61696, 61952, 62208, 62464, 62720, 62976, 63232, 63488} ->
           IF rb = None THEN Fail("panic")
           ELSE Ok(<<BitOr(binary, Unwrap(rb))>>)
      [] opcode \in {63744, 64000} ->
           IF t.immediate = None THEN Fail("panic")
           ELSE Ok(<<BitOr(binary, BitAnd(Unwrap(t.immediate), 15))>>)
      [] opcode = 64512 ->
           IF t.immediate = None THEN Fail("panic")
           ELSE Ok(<<BitOr(binary, BitAnd(Unwrap(t.immediate), 255))>>)
      [] OTHER -> Fail("err")

\* the InstrTokens arm of get_binary_from_tokens
EncodeInstr(t) ==
    LET First(opcode, ra) ==
            IF opcode # 64512 /\ ra = None THEN Fail("panic")
            ELSE EncodeOperands(t, opcode,
                                IF opcode # 64512
                                THEN (IF BitAnd(opcode, 61440) = 61440
                                      THEN BitOr(opcode, Shl16(Unwrap(ra), 4))
                                      ELSE BitOr(opcode, Shl16(Unwrap(ra), 8)))
                                ELSE opcode,
                                RegisterOf(t.operand_b), RegisterOf(t.operand_c))
    IN  IF t.opcode \notin DOMAIN OPCODE_BINARIES THEN Fail("panic")
        ELSE First(OPCODE_BINARIES[t.opcode], RegisterOf(t.operand_a))

\* Result<Vec<u16>, TokenTypeError>
get_binary_from_tokens(t) ==
    LET Wrap(r) == IF r.st = "ok" THEN Ok(Bytes(r.v, 0)) ELSE r
    IN  IF t.kind = "instr" THEN Wrap(EncodeInstr(t)) ELSE Ok(t.bytes)

\* The output file is kept as the sequence of its writes, one entry per record
\* or marker: the entry's leading bytes, then `pad` zero bytes.

\* the two bytes of each word written high byte first
WordBytes_BigEndian(b) ==
    [bytes |-> [i \in 1..(2 * Len(b.words)) |->
                   IF i % 2 = 1 THEN b.words[(i + 1) \div 2] \div 256 ELSE b.words[i \div 2] % 256],
     pad |-> 2 * b.pad]

\* the two bytes written for each word: low byte, then high byte
WordBytes(b) ==
    [bytes |-> [i \in 1..(2 * Len(b.words)) |->
                   IF i % 2 = 1 THEN b.words[(i + 1) \div 2] % 256 ELSE b.words[i \div 2] \div 256],
     pad |-> 2 * b.pad]

\* a marker without the colon: the first four characters, then the null byte
MarkerBytes_NoColon(name) ==
    [bytes |-> [i \in 1..4 |-> CodeUnit(CharAt(name, i))] \o <<0>>, pad |-> 0]

\* "data:\0".as_bytes() and "text:\0".as_bytes()
MarkerBytes(name) ==
    [bytes |-> [i \in 1..Len(name) |-> CodeUnit(CharAt(name, i))] \o <<0>>, pad |-> 0]

\* the first loop of generate_binary from record i on: the writes made, and
\* whether an unwrap panicked
RECURSIVE WriteFrom(_, _, _, _)
WriteFrom(tokens, i, section_mode, written) ==
    LET Put(t, b) ==
            CASE t.kind = "text" -> WriteFrom(tokens, i + 1, section_mode, written)
              [] t.kind = "instr" ->
                   IF b.st # "ok" THEN [st |-> "panic", writes |-> written]
                   ELSE WriteFrom(tokens, i + 1, section_mode, Append(written, WordBytes(b.v)))
              [] t.kind = "data" ->
                   WriteFrom(tokens, i + 1, "d",
                             (IF section_mode = "c" THEN Append(written, MarkerBytes("data:"))
                              ELSE written) \o <<WordBytes(b.v)>>)
    IN  IF i > Len(tokens) THEN [st |-> "ok", writes |-> written]
        ELSE Put(tokens[i], get_binary_from_tokens(tokens[i]))

\* text_instrs: the Text records of the stream, in order
RECURSIVE TextInstrs(_)
TextInstrs(tokens) ==
    IF tokens = <<>> THEN <<>>
    ELSE (IF Head(tokens).kind = "text" THEN <<Head(tokens)>> ELSE <<>>) \o TextInstrs(Tail(tokens))

WriteTexts(texts) == [i \in 1..Len(texts) |-> WordBytes(get_binary_from_tokens(texts[i]).v)]

\* the writes generate_binary makes to the output file, and how it ends
generate_binary(tokens) ==
    LET Finish(first, texts) ==
            IF first.st # "ok" THEN first
            ELSE [st |-> "ok",
                  writes |-> first.writes \o (IF texts # <<>>
                                              THEN <<MarkerBytes("text:")>> \o WriteTexts(texts)
                                              ELSE <<>>)]
    IN  Finish(WriteFrom(tokens, 1, "c", <<>>), TextInstrs(tokens))

-----------------------------------------------------------------------------
(* The input programs: sequences of trimmed, non-empty source lines.       *)

MaxLines == 5

\* the lines of programs of up to MaxLines lines
CoreLines ==
    {"NOP",
     "s: LOAD $g5, $g8, $g9, @d",
     "b: BEQ $g3, $g4, @t",
     "JUMP $ra",
     "MOVUI $g0, @d",
     "m:",
     "data:",
     "text:",
     "d: .int 42",
     ".long 5",
     "big: .section 4097 [1]",
     "t: .text 3 \"hi\"",
     ".text 2 \"a\""}

\* the lines of one-line programs: every mnemonic in its operand forms
WideLines ==
    {"ADD $g0, $zero, $g1", "SUB $g2, $g3, $g4", "NAND $pc, $g0, $g1", "OR $g0, $g1, $g2",
     "LOAD $g0, $g1, $g2", "STORE $g0, $g1, $g2", "STORE $g0, $g1, $g2, @x",
     "ADDI $g8, $g9, 10", "SUBI $g8, $g9, 5", "SLL $g0, $g1, 0b1101", "SRL $g2, $g3, 13",
     "SRA $g3, $g4, 0x0004", "ADDC $g0, $g1", "SUBC $g2, $g3", "CMP $g0, $g1",
     "IN $g0, $g1", "OUT $g0, $g1", "JUMP $g1, $g2", "JAL $ra", "x: JAL $g2, $g3, @x",
     "BEQ $g3, $g4", "BNE $sp", "BNE $g3, $g4", "BLT $g3, $g4", "BGT $pc",
     "x: MOVUI $g5, @x", "MOVUI $g5, 0x75", "MOVLI $g5, 255", "x: MOVLI $g5, @x",
     "syscall 19", "HALT", "ATOM", "x: ATOM ; atomic", "NOP ; nothing"}

\* the lines of two-line programs `data:` / line: the data directives with
\* their payload forms
DataLines ==
    {"v: .int -100", ".int 0xFFFF", "v: .int 0b00111010", "v: .long -100", ".long 70000",
     "v: .char 'a'", "v: .section 3 [-1, 2]", "v: .section 4 [1, 0x10]",
     ".section 2 [7, 8]", "v: .section 2 []"}

\* the lines of two-line programs `text:` / line: strings shorter than, as long
\* as and longer than the declared size
TextLines ==
    {".text 3 \"hi\"", ".text 2 \"hi\"", ".text 2 \"hello\"", ".text 5 \"hi\"",
     "w: .text 1 \"\"", "w: .text 1 \"a\"", "w: .text 4 \"a b\""}

\* the directives that are no line of the sets above, as lines of code mode
\* and of text mode
DirectiveLines == {".half 1.5", "v: .float 2.5", ".char 'a'"}

\* integer payloads with the base they are written in and their value (none
\* for a payload that does not parse in its base)
ImmCase(text, decimal, val) == [text |-> text, decimal |-> decimal, val |-> val]

ImmCases ==
    {ImmCase("0", TRUE, Some(0)), ImmCase("15", TRUE, Some(15)), ImmCase("16", TRUE, Some(16)),
     ImmCase("255", TRUE, Some(255)), ImmCase("256", TRUE, Some(256)),
     ImmCase("32767", TRUE, Some(32767)), ImmCase("32768", TRUE, Some(32768)),
     ImmCase("65535", TRUE, Some(65535)), ImmCase("+7", TRUE, Some(7)),
     ImmCase("-1", TRUE, Some(-1)), ImmCase("-8", TRUE, Some(-8)),
     ImmCase("-32768", TRUE, Some(-32768)), ImmCase("-32769", TRUE, Some(-32769)),
     ImmCase("0xF", FALSE, Some(15)), ImmCase("0x10", FALSE, Some(16)),
     ImmCase("0xfF", FALSE, Some(255)), ImmCase("0x100", FALSE, Some(256)),
     ImmCase("0x8000", FALSE, Some(32768)), ImmCase("0xFFFF", FALSE, Some(65535)),
     ImmCase("0x10000", FALSE, Some(65536)), ImmCase("0x-1", FALSE, Some(-1)),
     ImmCase("0b1111", FALSE, Some(15)), ImmCase("0b10000", FALSE, Some(16)),
     ImmCase("0b11111111", FALSE, Some(255)), ImmCase("0b100000000", FALSE, Some(256)),
     ImmCase("0b-1", FALSE, Some(-1)),
     ImmCase("0b102", FALSE, None), ImmCase("0xG1", FALSE, None), ImmCase("0x", FALSE, None),
     ImmCase("1q", TRUE, None), ImmCase("-0x1", TRUE, None), ImmCase("1.5", TRUE, None)}

\* the lines that hand a payload to validate_int_immediate: the lines before
\* them, the text before the payload, and the width and signedness the
\* validator checks the payload with
ImmForm(before, prefix, bits, signed) ==
    [before |-> before, prefix |-> prefix, bits |-> bits, signed |-> signed]

ImmForms ==
    {ImmForm(<<>>, "ADDI $g8, $g9, ", 4, FALSE),
     ImmForm(<<>>, "MOVLI $g5, ", 8, FALSE),
     ImmForm(<<"data:">>, "v: .int ", 16, TRUE)}

\* the lines of the programs before |-> line, one per form and payload
ImmLines(before) ==
    {f.prefix \o c.text : f \in {g \in ImmForms : g.before = before}, c \in ImmCases}

\* the lines of one-line programs whose operands do not fit the mnemonic: one
\* operand too few or too many, or an operand of another sort
SchemaLines ==
    {"ADD $g0, $g1", "SUB $g0, $g1, 5", "NAND $g0, $g1, $g2, $g3", "OR $g0, $g1, $bad",
     "LOAD $g0, $g1", "LOAD $g0, $g1, $g2, x", "STORE $g0, $g1, $g2, @x, @y",
     "ADDI $g8, $g9", "SUBI $g8, $g9, $g1", "SLL $g0, 3, $g1", "SRA $g3, $g4, @x",
     "ADDC $g0", "SUBC $g0, 3", "CMP $g0, $g1, $g2", "IN $g0", "OUT 1, $g0",
     "JUMP", "JUMP $g1", "JAL $zero", "BEQ $g3, $g4, 5", "BNE $g3, @x", "BLT @x",
     "BGT $g3, $g4, @x, @y", "MOVUI $g5", "MOVLI 255, $g5", "MOVUI $g5, $g6",
     "MOVLI $g5, 1, 2", "syscall", "syscall $g0", "syscall 1, 2", "NOP $g0", "HALT 1",
     "ATOM $g0 ; atomic"}

\* the lines of one-line programs name: body, for names with and without a
\* mnemonic among their letters
SpellingNames == {"x", "B", "ORB", "xNOPx", "IN1", "ADD", "sub"}

SpellingBodies ==
    {"OR $g0, $g1, $g2", "NOP", "IN $g0, $g1", "ADD $g0, $g1", "ADDI $g8, $g9, 10",
     "SUB $g2, $g3, $g4"}

SpellingLines == {name \o ": " \o body : name \in SpellingNames, body \in SpellingBodies}

\* the second lines of two-line programs NOP / line: validated instructions
\* that get_binary_from_tokens has no word for
UnencodedLines == {"ATOM", "IN $g0, $g1", "x: OUT $g0, $g1"}

-----------------------------------------------------------------------------
(* The pipeline of main.                                                   *)

Init ==
    /\ pc = "read"
    /\ source = <<>>
    /\ mode = "c"
    /\ next_label = None
    /\ built = <<>>
    /\ expanded = <<>>
    /\ label_table = EmptyTable
    /\ subbed = <<>>
    /\ out = <<>>
    /\ err = "none"

\* the token the mode's generator builds for a line
GenerateTokens(line, m, prev_label) ==
    CASE m = "c" -> generate_instr_tokens(line, prev_label)
      [] m = "d" -> generate_data_tokens(line, prev_label, m)
      [] m = "t" -> generate_text_tokens(line, prev_label, m)

\* the rest of an iteration of process_file_into_tokens, the line validated
PushTokens(line, generated) ==
    IF EndsWith(line, ":")
    THEN next_label' = Some(Upto(line, Len(line) - 1))
         /\ UNCHANGED <<pc, mode, built, err>>
    ELSE IF generated.st # "ok"
    THEN pc' = "failed" /\ err' = "token" /\ UNCHANGED <<mode, next_label, built>>
    ELSE /\ built' = Append(built, generated.v)
         /\ next_label' = None
         /\ UNCHANGED <<pc, mode, err>>

\* one iteration of the loop of process_file_into_tokens
ReadLine(line) ==
    /\ pc = "read"
    /\ source' = Append(source, line)
    /\ UNCHANGED <<expanded, label_table, subbed, out>>
    /\ IF line = "data:"
       THEN mode' = "d" /\ UNCHANGED <<pc, next_label, built, err>>
       ELSE IF line = "text:"
       THEN mode' = "t" /\ UNCHANGED <<pc, next_label, built, err>>
       ELSE IF validate_asm_line(line, mode) # "ok"
       THEN pc' = "failed" /\ err' = "validation" /\ UNCHANGED <<mode, next_label, built>>
       ELSE PushTokens(line, GenerateTokens(line, mode, next_label))

\* the lines a program may continue with: one line of WideLines,
\* DirectiveLines, ImmLines, SchemaLines or SpellingLines as a whole program,
\* one line of UnencodedLines after NOP, one line of DataLines,
\* WideLines or ImmLines after
\* `data:`, one line of any of the sets after `text:`, or up to MaxLines lines of
\* CoreLines
NextLines ==
    IF source = <<>>
    THEN WideLines \cup DirectiveLines \cup ImmLines(source) \cup SchemaLines
         \cup SpellingLines \cup CoreLines
    ELSE IF source = <<"NOP">> THEN UnencodedLines \cup CoreLines
    ELSE IF source = <<"data:">>
    THEN DataLines \cup WideLines \cup ImmLines(source) \cup CoreLines
    ELSE IF source = <<"text:">>
    THEN TextLines \cup DataLines \cup DirectiveLines \cup WideLines \cup CoreLines
    ELSE IF /\ Len(source) < MaxLines
            /\ source[1] \in CoreLines
            /\ source[Len(source)] \in CoreLines
    THEN CoreLines
    ELSE {}

Read == \E line \in NextLines : ReadLine(line)

\* the end of the file: process_file_into_tokens returns the tokens
EndOfFile ==
    /\ pc = "read"
    /\ pc' = "expand"
    /\ UNCHANGED <<source, mode, next_label, built, expanded, label_table, subbed, out, err>>

Expand ==
    /\ pc = "expand"
    /\ expanded' = substitute_pseudo_instrs(built)
    /\ pc' = "resolve"
    /\ UNCHANGED <<source, mode, next_label, built, label_table, subbed, out, err>>

Resolve ==
    /\ pc = "resolve"
    /\ LET Take(r) ==
               IF r.st = "ok"
               THEN label_table' = r.v /\ pc' = "substitute" /\ err' = err
               ELSE label_table' = label_table /\ pc' = "failed" /\ err' = "duplicate"
       IN  Take(generate_label_table(expanded))
    /\ UNCHANGED <<source, mode, next_label, built, expanded, subbed, out>>

Substitute ==
    /\ pc = "substitute"
    /\ LET Take(r) ==
               IF r.st = "ok"
               THEN subbed' = r.v /\ pc' = "encode" /\ err' = err
               ELSE subbed' = subbed /\ pc' = "failed" /\ err' = "label"
       IN  Take(substitute_labels(expanded, label_table))
    /\ UNCHANGED <<source, mode, next_label, built, expanded, label_table, out>>

Encode ==
    /\ pc = "encode"
    /\ LET Take(r) ==
               /\ out' = r.writes
               /\ IF r.st = "ok" THEN pc' = "done" /\ err' = err
                  ELSE pc' = "failed" /\ err' = "encode"
       IN  Take(generate_binary(subbed))
    /\ UNCHANGED <<source, mode, next_label, built, expanded, label_table, subbed>>

Next == Read \/ EndOfFile \/ Expand \/ Resolve \/ Substitute \/ Encode

Spec == Init /\ [][Next]_vars

-----------------------------------------------------------------------------
(* Properties.  The stage predicates say which results the state holds.    *)

ExpanderRan ==
    \/ pc \in {"resolve", "substitute", "encode", "done"}
    \/ pc = "failed" /\ err \in {"duplicate", "label", "encode"}

ResolverRan ==
    \/ pc \in {"substitute", "encode", "done"}
    \/ pc = "failed" /\ err \in {"label", "encode"}

SubstituterRan ==
    \/ pc \in {"encode", "done"}
    \/ pc = "failed" /\ err = "encode"

IsLabelled(t) == IsSome(t.label)

HasOperandLabel(t) == t.kind = "instr" /\ IsSome(t.op_label)

IsLabelBranch(t) == HasOperandLabel(t) /\ t.opcode \in BranchOpcodes

IsLabelLoadStore(t) == HasOperandLabel(t) /\ t.opcode \in {"LOAD", "STORE"}

\* a labelled record whose label the resolver has bound
IsBound(t) == IsLabelled(t) /\ Unwrap(t.label) \in DOMAIN label_table

AddrOf(t) == label_table[Unwrap(t.label)]

\* the addresses a record occupies: one word per instruction, bytes.len otherwise
SizeOf(t) == IF t.kind = "instr" THEN 1 ELSE BytesLen(t.bytes)

\* the sizes of records i .. j-1 of a stream
RECURSIVE SizeSum(_, _, _)
SizeSum(tokens, i, j) ==
    IF i >= j THEN 0 ELSE SizeOf(tokens[i]) + SizeSum(tokens, i + 1, j)

\* the records a record is expected to expand to, a label-bearing branch
\* taking branch_records
RecordsFor(t, branch_records) ==
    IF IsLabelBranch(t) THEN branch_records
    ELSE IF IsLabelLoadStore(t) THEN 3
    ELSE 1

\* the records expected before the expansion of record i
RECURSIVE RecordsBefore(_, _, _)
RecordsBefore(tokens, i, branch_records) ==
    IF i <= 1 THEN 0
    ELSE RecordsBefore(tokens, i - 1, branch_records) + RecordsFor(tokens[i - 1], branch_records)

\* the code words expected before the expansion of record i
RECURSIVE WordsBefore(_, _, _)
WordsBefore(tokens, i, branch_records) ==
    IF i <= 1 THEN 0
    ELSE WordsBefore(tokens, i - 1, branch_records)
         + (IF tokens[i - 1].kind = "instr" THEN RecordsFor(tokens[i - 1], branch_records) ELSE 0)

\* C1: the address ranges of bound records of different sections are disjoint:
\* no address of [addr, addr+len) of a code, Data or Text record lies in the
\* range of a record of another section.
C1_SectionsDisjoint ==
    ResolverRan =>
        \A i, j \in 1..Len(expanded) :
            (/\ expanded[i].kind # expanded[j].kind
             /\ IsBound(expanded[i]) /\ IsBound(expanded[j]))
            => \/ AddrOf(expanded[i]) + SizeOf(expanded[i]) <= AddrOf(expanded[j])
               \/ AddrOf(expanded[j]) + SizeOf(expanded[j]) <= AddrOf(expanded[i])

\* C2: every record advances its section's counter by its size (bytes.len for
\* Data and Text, 1 for an instruction) whether or not it carries a label, and
\* a label is bound to the counter before the advancement: within a run of
\* records of one section, two bound labels lie apart by the sizes of the
\* records from the first to the second.
C2_CountersAdvanceBySize ==
    ResolverRan =>
        \A i, j \in 1..Len(expanded) :
            (/\ i < j
             /\ \A k \in i..j : expanded[k].kind = expanded[i].kind
             /\ IsBound(expanded[i]) /\ IsBound(expanded[j]))
            => AddrOf(expanded[j]) = AddrOf(expanded[i]) + SizeSum(expanded, i, j)

\* C3: the line label of an instruction with an operand label (LOAD/STORE or a
\* branch) is on the first MOVLI of its expansion, and the resolver binds it.
C3_LineLabelOnFirstMOVLI ==
    ExpanderRan =>
        \A i \in 1..Len(built) :
            (/\ IsLabelBranch(built[i]) \/ IsLabelLoadStore(built[i])
             /\ IsLabelled(built[i]))
            => /\ RecordsBefore(built, i, 5) + 1 <= Len(expanded)
               /\ expanded[RecordsBefore(built, i, 5) + 1].opcode = "MOVLI"
               /\ expanded[RecordsBefore(built, i, 5) + 1].label = built[i].label
               /\ ResolverRan => Unwrap(built[i].label) \in DOMAIN label_table

\* the expanded stream has the expected number of records, and every bound
\* instruction label has the address given by the code words before it
BranchCosts(branch_records) ==
    /\ ExpanderRan => Len(expanded) = RecordsBefore(built, Len(built) + 1, branch_records)
    /\ ResolverRan =>
           \A i \in 1..Len(built) :
               (built[i].kind = "instr" /\ IsBound(built[i]) /\ ~IsLabelLoadStore(built[i]))
               => AddrOf(built[i]) = WordsBefore(built, i, branch_records)

\* C4 (as stated): a branch with an operand label expands to exactly three
\* records and costs exactly 3 code words in the resolver.
C4_BranchCostsThreeWords == BranchCosts(3)

\* C4 (amended): a branch with an operand label expands to exactly five
\* records and costs exactly 5 code words in the resolver.
C4_BranchCostsFiveWords == BranchCosts(5)

\* C4 witness: a resolved program in which a bound instruction label follows
\* a branch with an operand label
C4_Witness ==
    /\ ResolverRan
    /\ \E i, j \in 1..Len(built) :
           i < j /\ IsLabelBranch(built[i]) /\ built[j].kind = "instr" /\ IsBound(built[j])

\* the five records of the expansion of the branch t, from record s + 1 on
BranchExpansionAt(t, s) ==
    /\ s + 5 <= Len(expanded)
    /\ \A k \in 1..4 :
           /\ expanded[s + k].opcode = (IF k % 2 = 1 THEN "MOVLI" ELSE "MOVUI")
           /\ expanded[s + k].operand_a = (IF k <= 2 THEN t.operand_a ELSE t.operand_b)
           /\ expanded[s + k].op_label =
                  Some((IF k <= 2 THEN "u" ELSE "l") \o Unwrap(t.op_label))
    /\ expanded[s + 5].opcode = t.opcode
    /\ expanded[s + 5].operand_a = t.operand_a
    /\ expanded[s + 5].operand_b = t.operand_b
    /\ expanded[s + 5].immediate = None
    /\ expanded[s + 5].op_label = None

\* C5: a branch OP $a, $b, @L expands to exactly five records in this order:
\* MOVLI $a with u@L, MOVUI $a with u@L, MOVLI $b with l@L, MOVUI $b with l@L,
\* then OP $a, $b with no immediate and no operand label.
C5_BranchExpandsToFive ==
    ExpanderRan =>
        /\ Len(expanded) = RecordsBefore(built, Len(built) + 1, 5)
        /\ \A i \in 1..Len(built) :
               IsLabelBranch(built[i]) => BranchExpansionAt(built[i], RecordsBefore(built, i, 5))

\* C5 witness: an expanded program with a branch OP $a, $b, @L after another record
C5_Witness ==
    /\ ExpanderRan
    /\ \E i \in 2..Len(built) :
           IsLabelBranch(built[i]) /\ IsSome(built[i].operand_a) /\ IsSome(built[i].operand_b)

\* the three records of the expansion of the LOAD/STORE t, from record s + 1 on
LoadStoreExpansionAt(t, s) ==
    /\ s + 3 <= Len(expanded)
    /\ \A k \in 1..2 :
           /\ expanded[s + k].opcode = (IF k = 1 THEN "MOVLI" ELSE "MOVUI")
           /\ expanded[s + k].operand_a = t.operand_b
           /\ expanded[s + k].op_label = Some("l" \o Unwrap(t.op_label))
    /\ expanded[s + 3].opcode = t.opcode
    /\ expanded[s + 3].operand_a = t.operand_a
    /\ expanded[s + 3].operand_b = t.operand_b
    /\ expanded[s + 3].operand_c = t.operand_c
    /\ expanded[s + 3].op_label = None

\* the expansion of record i ends where expected with the record's own
\* opcode (an instruction) or the record itself (Data, Text)
KeepsPlace(i) ==
    /\ RecordsBefore(built, i + 1, 5) <= Len(expanded)
    /\ IF built[i].kind = "instr"
       THEN expanded[RecordsBefore(built, i + 1, 5)].opcode = built[i].opcode
       ELSE expanded[RecordsBefore(built, i + 1, 5)] = built[i]

\* C6: a LOAD or STORE with an operand label expands to exactly three records
\* in order: MOVLI op_b with the label reference, MOVUI op_b with the label
\* reference, then the LOAD/STORE with op_a, op_b, op_c unchanged and no
\* operand label; the records before and after keep their relative order.
C6_LoadStoreExpandsToThree ==
    ExpanderRan =>
        /\ Len(expanded) = RecordsBefore(built, Len(built) + 1, 5)
        /\ \A i \in 1..Len(built) :
               /\ KeepsPlace(i)
               /\ IsLabelLoadStore(built[i])
                  => LoadStoreExpansionAt(built[i], RecordsBefore(built, i, 5))

\* C6 witness: an expanded program with a LOAD/STORE with an operand label
\* between two other records
C6_Witness ==
    /\ ExpanderRan
    /\ \E i \in 2..(Len(built) - 1) : IsLabelLoadStore(built[i])

\* every operand label of the expanded stream is replaced by the byte that
\* Byte(opcode, tag, addr) names
ImmediatesAre(Byte(_, _, _)) ==
    SubstituterRan =>
        /\ Len(subbed) = Len(expanded)
        /\ \A j \in 1..Len(expanded) :
               HasOperandLabel(expanded[j])
               => /\ LabelName(Unwrap(expanded[j].op_label)) \in DOMAIN label_table
                  /\ subbed[j].immediate =
                         Some(Byte(expanded[j].opcode, LabelPrefix(Unwrap(expanded[j].op_label)),
                                   label_table[LabelName(Unwrap(expanded[j].op_label))]))

\* the byte every MOVLI / MOVUI takes: bits 0-7 / bits 8-15 of the address
LowHalfByte(opcode, tag, addr) ==
    IF opcode = "MOVLI" THEN addr % 256 ELSE (addr \div 256) % 256

\* the byte by tag: bits 16-23 / 24-31 under the tag u, bits 0-7 / 8-15 otherwise
TaggedByte(opcode, tag, addr) ==
    IF tag = "u"
    THEN (IF opcode = "MOVLI" THEN (addr \div 65536) % 256 ELSE (addr \div 16777216) % 256)
    ELSE (IF opcode = "MOVLI" THEN addr % 256 ELSE (addr \div 256) % 256)

\* C7 (as stated): every MOVLI with an operand label receives addr & 0xFF and
\* every MOVUI receives (addr >> 8) & 0xFF, those of the expander included.
C7_LowHalfBytes == ImmediatesAre(LowHalfByte)

\* C7 (amended): a MOVLI / MOVUI whose operand label carries the tag u
\* receives (addr >> 16) & 0xFF / (addr >> 24) & 0xFF; with the tag l or no
\* tag it receives addr & 0xFF / (addr >> 8) & 0xFF.
C7_TaggedBytes == ImmediatesAre(TaggedByte)

\* C7 witness: labels substituted in a stream holding a u-tagged reference to
\* an address with a non-zero second byte
C7_Witness ==
    /\ SubstituterRan
    /\ \E j \in 1..Len(expanded) :
           /\ HasOperandLabel(expanded[j])
           /\ LabelPrefix(Unwrap(expanded[j].op_label)) = "u"
           /\ label_table[LabelName(Unwrap(expanded[j].op_label))] >= 256

\* C8: the encoder fails on no instruction record that reaches it: every
\* instruction of the substituted stream encodes to a word.
C8_EncoderNeverFails ==
    pc = "encode" =>
        \A i \in 1..Len(subbed) :
            subbed[i].kind = "instr" => get_binary_from_tokens(subbed[i]).st = "ok"

\* C9: an ATOM instruction is encoded like NOP, as the single word 0x0000.
C9_AtomEncodesAsNop ==
    pc = "encode" =>
        \A i \in 1..Len(subbed) :
            (subbed[i].kind = "instr" /\ subbed[i].opcode = "ATOM")
            => /\ get_binary_from_tokens(subbed[i]).st = "ok"
               /\ get_binary_from_tokens(subbed[i]).v = Bytes(<<0>>, 0)

\* C10: for ADDI, SUBI, SLL, SRL and SRA the low 4 bits of the emitted word
\* equal the immediate.
C10_LowBitsAreImmediate ==
    pc = "encode" =>
        \A i \in 1..Len(subbed) :
            (/\ subbed[i].kind = "instr"
             /\ subbed[i].opcode \in {"ADDI", "SUBI", "SLL", "SRL", "SRA"}
             /\ IsSome(subbed[i].immediate))
            => /\ get_binary_from_tokens(subbed[i]).st = "ok"
               /\ BytesAt(get_binary_from_tokens(subbed[i]).v, 1) % 16
                      = Unwrap(subbed[i].immediate) % 16

\* the positions of the records of a kind in the expanded stream
KindAt(kind) == {i \in 1..Len(expanded) : expanded[i].kind = kind}

\* the first record of a kind in the expanded stream is record i
IsFirstOf(kind, i) == i \in KindAt(kind) /\ \A k \in KindAt(kind) : i <= k

\* the first instruction label resolves to code_base, and the first Data
\* record's label to data_base when fewer than a page of instructions and no
\* Text record come before it
BasesAre(code_base, data_base) ==
    ResolverRan =>
        \A i \in 1..Len(expanded) :
            /\ (IsFirstOf("instr", i) /\ IsBound(expanded[i]))
               => AddrOf(expanded[i]) = code_base
            /\ (/\ IsFirstOf("data", i) /\ IsBound(expanded[i])
                /\ Cardinality(KindAt("instr")) < page_size
                /\ \A k \in KindAt("text") : i < k)
               => AddrOf(expanded[i]) = data_base

\* C11 (as stated): the label of the first instruction resolves to 0x2400 and
\* the label of the first Data record to 0x8800.
C11_FixedBases == BasesAre(9216, 34816)

\* C11 (amended): the label of the first instruction resolves to 0 and the
\* label of the first Data record to 0x1000, however many instructions (fewer
\* than a page) come before the data and with no Text record before it.
C11_PagedBases == BasesAre(0, 4096)

\* C11 witness: a resolved program with a bound first instruction and a bound
\* first Data record after more than one instruction
C11_Witness ==
    /\ ResolverRan
    /\ \E i, j \in 1..Len(expanded) :
           /\ IsFirstOf("instr", i) /\ IsBound(expanded[i])
           /\ IsFirstOf("data", j) /\ IsBound(expanded[j])
           /\ Cardinality(KindAt("instr")) > 1

\* the first page boundary strictly above the page of the last of n instructions
PageAbove(n) == IF n = 0 THEN page_size ELSE (((n - 1) \div page_size) + 1) * page_size

\* C12: the first instruction is bound to address 0, the first Data record to
\* the first page boundary strictly above the page of the last instruction,
\* and no Data label shares a page with an instruction label.
C12_DataOnOwnPage ==
    ResolverRan =>
        \A i \in 1..Len(expanded) :
            /\ (IsFirstOf("instr", i) /\ IsBound(expanded[i])) => AddrOf(expanded[i]) = 0
            /\ (IsFirstOf("data", i) /\ IsBound(expanded[i]))
               => AddrOf(expanded[i]) = PageAbove(Cardinality(KindAt("instr")))
            /\ \A j \in 1..Len(expanded) :
                   (/\ expanded[i].kind = "instr" /\ IsBound(expanded[i])
                    /\ expanded[j].kind = "data" /\ IsBound(expanded[j]))
                   => AddrOf(expanded[i]) \div page_size # AddrOf(expanded[j]) \div page_size

\* C13: after substitute_pseudo_instrs no instruction record carries both an
\* immediate and an operand label, and no instruction other than MOVLI or
\* MOVUI carries an operand label.
C13_OperandLabelsOnlyOnMoves ==
    ExpanderRan =>
        \A j \in 1..Len(expanded) :
            expanded[j].kind = "instr"
            => /\ ~(IsSome(expanded[j].immediate) /\ IsSome(expanded[j].op_label))
               /\ IsSome(expanded[j].op_label) => expanded[j].opcode \in {"MOVLI", "MOVUI"}

\* C13 witness: an expanded program built from a branch or LOAD/STORE with an
\* operand label
C13_Witness ==
    /\ ExpanderRan
    /\ \E i \in 1..Len(built) : IsLabelBranch(built[i]) \/ IsLabelLoadStore(built[i])
    /\ \E j \in 1..Len(expanded) : HasOperandLabel(expanded[j])

\* the label an operand label names: the text after the @
ReferencedLabel(op_label) == From(op_label, Find(op_label, "@") + 1)

\* the records whose operand label names a label absent from the table
Missing ==
    {j \in 1..Len(expanded) :
        /\ HasOperandLabel(expanded[j])
        /\ ReferencedLabel(Unwrap(expanded[j].op_label)) \notin DOMAIN label_table}

SubstituterTried == SubstituterRan \/ (pc = "failed" /\ err = "label")

\* C14: substitute_labels fails with label-not-found exactly when some operand
\* label names a label absent from the table; otherwise the stream keeps its
\* length, no instruction carries an operand label and every substituted
\* immediate lies in 0..255.
C14_LabelNotFoundIffMissing ==
    SubstituterTried =>
        /\ err = "label" <=> Missing # {}
        /\ SubstituterRan =>
               /\ Len(subbed) = Len(expanded)
               /\ \A j \in 1..Len(subbed) :
                      subbed[j].kind = "instr"
                      => /\ subbed[j].op_label = None
                         /\ HasOperandLabel(expanded[j])
                            => /\ IsSome(subbed[j].immediate)
                               /\ Unwrap(subbed[j].immediate) \in 0..255

\* C14 witness: substitution has failed on a stream with one operand label in
\* the table and one absent from it
C14_Witness ==
    /\ pc = "failed" /\ err = "label"
    /\ Missing # {}
    /\ \E j \in 1..Len(expanded) : HasOperandLabel(expanded[j]) /\ j \notin Missing

\* the labelled records whose label an earlier record carries
Repeats ==
    {j \in 1..Len(expanded) :
        /\ IsLabelled(expanded[j])
        /\ \E i \in 1..(j - 1) : expanded[i].label = expanded[j].label}

ResolverTried == ResolverRan \/ (pc = "failed" /\ err = "duplicate")

\* C15: generate_label_table fails with a duplicate-label error naming the
\* label exactly when two records of the stream carry the same label;
\* otherwise the table has exactly one entry per labelled record.
C15_DuplicateIffRepeated ==
    ResolverTried =>
        /\ err = "duplicate" <=> Repeats # {}
        /\ Repeats # {}
           => ResolvePrefix(expanded, Len(expanded)).dup = expanded[Min(Repeats)].label
        /\ ResolverRan =>
               /\ DOMAIN label_table
                      = {Unwrap(expanded[i].label) :
                             i \in {k \in 1..Len(expanded) : IsLabelled(expanded[k])}}
               /\ Cardinality(DOMAIN label_table)
                      = Cardinality({k \in 1..Len(expanded) : IsLabelled(expanded[k])})

\* C15 witness: resolution has failed on a stream in which an instruction and
\* a Data record carry the same label
C15_Witness ==
    /\ pc = "failed" /\ err = "duplicate"
    /\ \E i, j \in 1..Len(expanded) :
           /\ expanded[i].kind = "instr" /\ expanded[j].kind = "data"
           /\ IsLabelled(expanded[i]) /\ expanded[i].label = expanded[j].label

\* C16: once the reader's section mode is text no later line changes it: after
\* a `text:` line has been read the mode is text, whatever lines follow.
C16_TextModeIsFinal ==
    (\E i \in 1..Len(source) : source[i] = "text:") => mode = "t"

\* a line that is only a label, and a record line with its own label prefix
IsLabelOnly(line) == EndsWith(line, ":") /\ line \notin {"data:", "text:"}

HasOwnLabel(line) == Find(line, ":") # -1 /\ ~EndsWith(line, ":")

\* C17: when a record line with its own label prefix follows a label-only
\* line, the record gets the same-line label and the pending label stays in
\* its slot for a later line.
C17_PendingLabelKept ==
    (/\ pc = "read"
     /\ Len(source) >= 2
     /\ IsLabelOnly(source[Len(source) - 1])
     /\ HasOwnLabel(source[Len(source)]))
    => /\ built # <<>>
       /\ built[Len(built)].label
              = Some(Upto(source[Len(source)], Find(source[Len(source)], ":")))
       /\ next_label = Some(Upto(source[Len(source) - 1], Len(source[Len(source) - 1]) - 1))

\* the records of a kind of a stream, in stream order
RECURSIVE Select(_, _)
Select(tokens, kind) ==
    IF tokens = <<>> THEN <<>>
    ELSE (IF Head(tokens).kind = kind THEN <<Head(tokens)>> ELSE <<>>)
         \o Select(Tail(tokens), kind)

\* the bytes of a sequence of words, each word low byte first
RECURSIVE LowHigh(_)
LowHigh(words) ==
    IF words = <<>> THEN <<>>
    ELSE <<Head(words) % 256, Head(words) \div 256>> \o LowHigh(Tail(words))

\* the write expected for a record: its words low byte first, its zero words
\* as two zero bytes each
ExpectedWrite(t) ==
    [bytes |-> LowHigh(get_binary_from_tokens(t).v.words),
     pad |-> 2 * get_binary_from_tokens(t).v.pad]

\* a write that is the marker of a section: the four letters of the section's
\* name first, a null byte last
IsMarker(w, letters) ==
    /\ w.pad = 0
    /\ Len(w.bytes) >= 5
    /\ SubSeq(w.bytes, 1, 4) = letters
    /\ w.bytes[Len(w.bytes)] = 0

\* the writes of a finished run are the code, Data and Text records, in this
\* order of sections and in stream order within each, with one marker before
\* the Data records and one before the Text records when there are any
WritesAre(code, data, text) ==
    /\ Len(out) = Len(code) + (IF data = <<>> THEN 0 ELSE 1 + Len(data))
                            + (IF text = <<>> THEN 0 ELSE 1 + Len(text))
    /\ \A k \in 1..Len(code) : out[k] = ExpectedWrite(code[k])
    /\ data # <<>> => IsMarker(out[Len(code) + 1], <<100, 97, 116, 97>>)
    /\ \A k \in 1..Len(data) : out[Len(code) + 1 + k] = ExpectedWrite(data[k])
    /\ text # <<>> => IsMarker(out[Len(out) - Len(text)], <<116, 101, 120, 116>>)
    /\ \A k \in 1..Len(text) : out[Len(out) - Len(text) + k] = ExpectedWrite(text[k])

\* C18: generate_binary writes every code word in stream order first; then,
\* exactly when there is a Data record, the data marker once and the Data
\* records in stream order; then, exactly when there is a Text record, the text
\* marker once and the Text records in stream order, Text last even when a Text
\* record precedes a Data record; each word is written low byte first.
C18_SectionsInOrder ==
    pc = "done" =>
        WritesAre(Select(subbed, "instr"), Select(subbed, "data"), Select(subbed, "text"))

\* C18 witness: a finished run of a stream with an instruction and a Text
\* record that precedes a Data record
C18_Witness ==
    /\ pc = "done"
    /\ \E i, j, k \in 1..Len(subbed) :
           /\ subbed[i].kind = "instr"
           /\ j < k /\ subbed[j].kind = "text" /\ subbed[k].kind = "data"

\* the writes before the Data records and before the Text records of a
\* finished run are these markers
MarkersAre(data_marker, text_marker) ==
    pc = "done" =>
        /\ Select(subbed, "data") # <<>>
           => out[Len(Select(subbed, "instr")) + 1] = [bytes |-> data_marker, pad |-> 0]
        /\ Select(subbed, "text") # <<>>
           => out[Len(out) - Len(Select(subbed, "text"))] = [bytes |-> text_marker, pad |-> 0]

\* C19 (as stated): each section marker is exactly 5 bytes long: the four
\* letters and a null byte (64 61 74 61 00 before the Data records).
C19_FiveByteMarkers ==
    MarkersAre(<<100, 97, 116, 97, 0>>, <<116, 101, 120, 116, 0>>)

\* C19 (amended): each section marker is exactly 6 bytes long: the four
\* letters, the colon and a null byte (64 61 74 61 3A 00 before the Data
\* records, 74 65 78 74 3A 00 before the Text records).
C19_SixByteMarkers ==
    MarkersAre(<<100, 97, 116, 97, 58, 0>>, <<116, 101, 120, 116, 58, 0>>)

\* C19 witness: a finished run that wrote code words, a Data record and a Text record
C19_Witness ==
    /\ pc = "done"
    /\ Select(subbed, "instr") # <<>>
    /\ Select(subbed, "data") # <<>>
    /\ Select(subbed, "text") # <<>>

\* the number of words a data line declares: 1 for .int, .half and .char, 2 for
\* .long and .float, the size operand for .section
DeclaredLength(line) ==
    LET Of(toks) ==
            IF toks[1] \in {".int", ".half", ".char"} THEN 1
            ELSE IF toks[1] \in {".long", ".float"} THEN 2
            ELSE Unwrap(ParseUsize(toks[2]))
    IN  Of(FilterNonEmpty(Split(remove_label(line), " ")))

\* a program of `data:` and one data line that the validator accepted
IsValidatedDataLine ==
    /\ Len(source) = 2
    /\ source[1] = "data:"
    /\ source[2] \in DataLines
    /\ err # "validation"

\* C20: for every data-section line the validator accepts, negative decimal
\* payloads of .int, .long and .section items included, the token builder does
\* not fail and produces a Data record whose bytes have exactly the declared
\* length.
C20_ValidatedDataLinesBuilt ==
    IsValidatedDataLine =>
        /\ err # "token"
        /\ Len(built) = 1
        /\ built[1].kind = "data"
        /\ BytesLen(built[1].bytes) = DeclaredLength(source[2])

\* the number of characters between the quotes of a .text line and the size
\* it declares
TextCount(line) == Len(line) - Find(line, "\"") - 2
TextSize(line) == Unwrap(ParseUsize(FilterNonEmpty(Split(remove_label(line), " "))[2]))

\* a program of `text:` and one .text line
IsTextLineProgram ==
    /\ Len(source) = 2
    /\ source[1] = "text:"
    /\ source[2] \in TextLines

\* a .text line in text mode is accepted exactly when the bound holds of the
\* number of its characters and its size
TextAcceptedWhen(Bound(_, _)) ==
    IsTextLineProgram =>
        (err # "validation" <=> Bound(TextCount(source[2]), TextSize(source[2])))

AtMost(count, size) == count <= size
Below(count, size) == count < size

\* C21 (as stated): in text mode a line .text <size> "<string>" is accepted
\* whenever the character count of the string is at most the size, the count
\* equal to the size included, and rejected when the count exceeds the size.
C21_AcceptedUpToSize == TextAcceptedWhen(AtMost)

\* C21 (amended): in text mode a line .text <size> "<string>" is accepted
\* exactly when the character count of the string is strictly less than the
\* size, one word being kept for the null terminator; a count equal to the
\* size is rejected.
C21_AcceptedBelowSize == TextAcceptedWhen(Below)

\* C21 witness: the validator rejected a string exactly as long as its size
C21_Witness ==
    /\ IsTextLineProgram
    /\ TextCount(source[2]) = TextSize(source[2])
    /\ err = "validation"

\* the mode in which line i of the source is validated: that of the last
\* section line before it
RECURSIVE ModeAt(_)
ModeAt(i) ==
    IF i = 1 THEN "c"
    ELSE IF source[i - 1] = "data:" THEN "d"
    ELSE IF source[i - 1] = "text:" THEN "t"
    ELSE ModeAt(i - 1)

\* the kind of a line that is no section line: a label alone, a .text
\* directive, another directive, or an instruction
KindOfLine(line) ==
    LET Of(first) ==
            IF first = ".text" THEN "t"
            ELSE IF StartsWith(first, ".") THEN "d"
            ELSE "c"
    IN  IF EndsWith(line, ":") THEN "label"
        ELSE Of(FilterNonEmpty(Split(remove_label(line), " "))[1])

\* line i of the source was rejected by the validator
Rejected(i) == i = Len(source) /\ err = "validation"

\* C22: validate_asm_line rejects every line whose kind disagrees with the
\* mode (a directive in code mode, an instruction or a .text line in data mode,
\* a line that is no .text directive in text mode) and accepts a label-only
\* line in every mode.
C22_KindAgreesWithMode ==
    \A i \in 1..Len(source) :
        source[i] \notin {"data:", "text:"} =>
            /\ KindOfLine(source[i]) = "label" => ~Rejected(i)
            /\ KindOfLine(source[i]) \notin {"label", ModeAt(i)} => Rejected(i)

\* C22 witness: a .text line rejected in data mode
C22_Witness ==
    \E i \in 1..Len(source) :
        /\ ModeAt(i) = "d"
        /\ KindOfLine(source[i]) = "t"
        /\ Rejected(i)

\* a payload parses in its base and its value lies in the signed range of the
\* width for a signed decimal, in the unsigned range otherwise
InRange(c, bits, signed) ==
    /\ c.val # None
    /\ IF signed /\ c.decimal
       THEN 0 - Pow2(bits - 1) <= Unwrap(c.val) /\ Unwrap(c.val) <= Pow2(bits - 1) - 1
       ELSE 0 <= Unwrap(c.val) /\ Unwrap(c.val) <= Pow2(bits) - 1

\* the program is the lines of a form and the form's line with a payload
IsImmProgram(f, c) == source = Append(f.before, f.prefix \o c.text)

\* C23: validate_int_immediate(payload, b, signed) accepts a payload exactly
\* when it parses in its base and its value lies in [-2^(b-1), 2^(b-1)-1] for a
\* signed decimal, in [0, 2^b - 1] otherwise; a negative value is accepted only
\* for a signed decimal, and hex and binary payloads are range-checked as
\* unsigned.
C23_AcceptedIffInRange ==
    \A f \in ImmForms : \A c \in ImmCases :
        IsImmProgram(f, c) =>
            /\ err # "validation" <=> InRange(c, f.bits, f.signed)
            /\ (err # "validation" /\ c.val # None /\ Unwrap(c.val) < 0)
               => (f.signed /\ c.decimal)

\* C23 witness: the validator accepted the least negative decimal of 16 bits
\* where the payload is signed
C23_Witness == source = <<"data:", "v: .int -32768">> /\ err # "validation"

\* the mnemonic and the operands of an instruction line, read after its label
MnemonicOf(line) == FilterNonEmpty(Split(remove_label(line), " "))[1]
OperandsOf(line) == get_operands_from_line(remove_label(line), MnemonicOf(line))

\* the operand list fits the form of the mnemonic
FitsSchema(op, ops) ==
    LET n      == Len(ops)
        Reg(i) == ops[i] \in valid_registers
        Lab(i) == validate_label_operand("", ops[i]) = "ok"
        Imm(i, bits) == validate_int_immediate(ops[i], bits, FALSE) = "ok"
    IN  CASE op \in {"ADD", "SUB", "NAND", "OR"} -> n = 3 /\ Reg(1) /\ Reg(2) /\ Reg(3)
          [] op \in {"LOAD", "STORE"} ->
                n \in {3, 4} /\ Reg(1) /\ Reg(2) /\ Reg(3) /\ (n = 4 => Lab(4))
          [] op \in {"ADDI", "SUBI", "SLL", "SRL", "SRA"} ->
                n = 3 /\ Reg(1) /\ Reg(2) /\ Imm(3, 4)
          [] op \in {"ADDC", "SUBC", "CMP", "IN", "OUT"} -> n = 2 /\ Reg(1) /\ Reg(2)
          [] op \in BranchOpcodes ->
                \/ n = 1 /\ ops[1] \in {"$sp", "$fp", "$ra", "$pc"}
                \/ n = 2 /\ Reg(1) /\ Reg(2)
                \/ n = 3 /\ Reg(1) /\ Reg(2) /\ Lab(3)
          [] op \in {"MOVUI", "MOVLI"} -> n = 2 /\ Reg(1) /\ (Imm(2, 8) \/ Lab(2))
          [] op = "syscall" -> n = 1 /\ Imm(1, 8)
          [] op \in {"NOP", "HALT", "ATOM"} -> n = 0
          [] OTHER -> FALSE

\* a program of one instruction line out of a set of lines
IsOneLineOf(lines) == Len(source) = 1 /\ source[1] \in lines

\* the one line of the lines is accepted exactly when its operands fit its mnemonic
AcceptedIffFits(lines) ==
    IsOneLineOf(lines) =>
        (err # "validation" <=> FitsSchema(MnemonicOf(source[1]), OperandsOf(source[1])))

\* C24: in code mode validate_asm_line accepts an instruction line if and only
\* if its operand list fits the form of its mnemonic.
C24_AcceptedIffSchema == AcceptedIffFits(WideLines \cup SchemaLines \cup SpellingLines)

\* the same on the lines whose label, if any, has no mnemonic among its letters
C24_AcceptedIffSchemaPlainLabels == AcceptedIffFits(WideLines \cup SchemaLines)

\* two instruction records agree on everything but the label
SameButLabel(a, b) ==
    /\ a.opcode = b.opcode
    /\ a.operand_a = b.operand_a /\ a.operand_b = b.operand_b /\ a.operand_c = b.operand_c
    /\ a.immediate = b.immediate
    /\ a.op_label = b.op_label

\* C30: the treatment of an instruction line does not depend on the spelling
\* of its label: a line name: body gets the verdict of the line x: body, and,
\* when accepted, a record with the same opcode, operands, immediate and
\* op_label, also for names that have a mnemonic among their letters.
C30_LabelSpellingIrrelevant ==
    \A name \in SpellingNames : \A body \in SpellingBodies :
        source = <<name \o ": " \o body>> =>
            /\ err # "validation" <=> validate_asm_line("x: " \o body, "c") = "ok"
            /\ Len(built) = 1 =>
                   SameButLabel(built[1], generate_instr_tokens("x: " \o body, None).v)

\* a branch without operand label
IsPlainBranch(t) == t.kind = "instr" /\ t.opcode \in BranchOpcodes /\ ~IsSome(t.op_label)

\* the write of the word OP[15:8] | 0[7:4] | Rb[3:0], low byte first
BranchWrite(opcode, rb) ==
    [bytes |-> <<REGISTER_BINARIES[rb], OPCODE_BINARIES[opcode] \div 256>>, pad |-> 0]

\* the one record at place s of the expanded stream is the single-register
\* branch t with its register moved to operand_b, and its word is written at
\* place s of the image
CanonicalBranchAt(t, s) ==
    /\ s <= Len(expanded)
    /\ expanded[s].opcode = t.opcode
    /\ expanded[s].label = t.label
    /\ expanded[s].operand_a = None
    /\ expanded[s].operand_b = t.operand_a
    /\ expanded[s].operand_c = None
    /\ expanded[s].immediate = None /\ expanded[s].op_label = None
    /\ pc = "done" => out[s] = BranchWrite(t.opcode, Unwrap(t.operand_a))

\* C25: a branch without operand label that carries a single register expands
\* to exactly one record with that register in operand_b, operand_a empty and
\* the line label kept, and its word is OP[15:8] | 0[7:4] | Rb[3:0]; a
\* two-register branch without operand label is emitted unchanged.
C25_SingleRegisterBranchCanonical ==
    ExpanderRan =>
        /\ Len(expanded) = RecordsBefore(built, Len(built) + 1, 5)
        /\ \A i \in 1..Len(built) :
               IsPlainBranch(built[i]) =>
                   IF IsSome(built[i].operand_b)
                   THEN expanded[RecordsBefore(built, i, 5) + 1] = built[i]
                   ELSE CanonicalBranchAt(built[i], RecordsBefore(built, i, 5) + 1)

\* C25 witness: a finished run with a labelled single-register branch after
\* another record
C25_Witness ==
    /\ pc = "done"
    /\ \E i \in 2..Len(built) :
           /\ IsPlainBranch(built[i])
           /\ ~IsSome(built[i].operand_b)
           /\ IsSome(built[i].label)

\* a stream with every run of instruction records taken as one item: the Data
\* and Text records as they are, in their places between the runs
RECURSIVE Collapse(_)
Collapse(tokens) ==
    IF tokens = <<>> THEN <<>>
    ELSE IF Head(tokens).kind # "instr" THEN <<Head(tokens)>> \o Collapse(Tail(tokens))
    ELSE IF Len(tokens) > 1 /\ tokens[2].kind = "instr" THEN Collapse(Tail(tokens))
    ELSE <<[kind |-> "instr"]>> \o Collapse(Tail(tokens))

C26_NoPartialImage == pc = "failed" => out = <<>>

\* the 16-bit words generate_binary writes for a record
WordsWritten(t) ==
    IF t.kind = "instr" THEN 1
    ELSE (Len(WordBytes(t.bytes).bytes) + WordBytes(t.bytes).pad) \div 2

\* the words written for the records of the kind of record i among records i .. j-1
RECURSIVE RegionWords(_, _, _)
RegionWords(kind, i, j) ==
    IF i >= j THEN 0
    ELSE (IF expanded[i].kind = kind THEN WordsWritten(expanded[i]) ELSE 0)
         + RegionWords(kind, i + 1, j)

\* C28: label addresses agree with the emitted image: the resolved address of
\* a labelled record minus the start of its region is the number of words
\* written for the records of the region before it, so two labelled records of
\* a region lie apart by the words written for the records of the region from
\* the first to the second, whatever mix of labelled and unlabelled records
\* lies between them.
C28_AddressesAgreeWithImage ==
    ResolverRan =>
        \A i, j \in 1..Len(expanded) :
            (/\ i < j
             /\ expanded[i].kind = expanded[j].kind
             /\ IsBound(expanded[i]) /\ IsBound(expanded[j]))
            => AddrOf(expanded[j]) - AddrOf(expanded[i]) = RegionWords(expanded[i].kind, i, j)

\* the label a line defines, if any: the label of a label-only line or the
\* prefix of a line
DefinesLabel(line) == line \notin {"data:", "text:"} /\ Find(line, ":") # -1
DefinedLabel(line) == Upto(line, Find(line, ":"))

\* C29: no label definition is silently dropped: for every source that
\* assembles without error, every label defined in it, on a label-only line or
\* as a prefix, is a key of the label table.
C29_EveryLabelBound ==
    pc = "done" =>
        \A i \in 1..Len(source) :
            DefinesLabel(source[i]) => DefinedLabel(source[i]) \in DOMAIN label_table

=============================================================================
